---- MODULE Spec2Model ----
(***************************************************************************)
(* Model of the nilix allocation substrate: the Allocator facade           *)
(* (src/src/allocator.rs) over an Arena, a block store backed by Regions   *)
(* (src/src/region.rs), one bump-cursor allocation head per Allocator, and *)
(* the per-object Header with its mark byte.                               *)
(*                                                                         *)
(* Addresses and sizes are byte counts.  The layout arithmetic of          *)
(* Allocator::alloc and Allocator::get_header is modelled as written.      *)
(* Arena, AllocHead, Header, SizeClass and the constants module are not    *)
(* part of the two source files; they are modelled from the design         *)
(* document and from the assertions of the tests in allocator.rs.          *)
(***************************************************************************)
EXTENDS Integers, FiniteSets, Sequences, TLC

\* ------------------------------------------------------------------------
\* Bounds of the model
\* ------------------------------------------------------------------------
NumAllocators == 2      \* allocators created against the one arena
MaxObjects == 3         \* objects alive between two refreshes
MaxFlips == 3           \* epoch flips followed while is_old calls interleave

\* ------------------------------------------------------------------------
\* Program constants
\* ------------------------------------------------------------------------
\* size_of::<Header>(): size class (1 byte), 16-bit size, mark (1 byte)
HEADER_SIZE == 4
\* align_of::<Header>(): the 16-bit size field
HEADER_ALIGN == 2
\* width of the header's encoded size (alloc_size as u16)
U16_MOD == 65536
\* constants module
BLOCK_SIZE == 32768
LINE_SIZE == 128
BLOCK_CAPACITY == BLOCK_SIZE - (BLOCK_SIZE \div LINE_SIZE)
SMALL_OBJECT_MAX == LINE_SIZE
\* The tests anchor the largest allocation at the 32-bit boundary
\* (u32::MAX is refused).  The model keeps the boundary a whole power of
\* two minus one but at 24 bits, so that every address stays inside the
\* integer range of the model checker.
MAX_ALLOC_SIZE == 16777215
\* a region is sliced into this many blocks
BLOCKS_PER_REGION == 32
REGION_SIZE == BLOCK_SIZE * BLOCKS_PER_REGION
\* base address of the region the standard blocks are carved from
\* (Region::default: aligned to BLOCK_SIZE)
REGION_BASE == 32768

Allocators == 1..NumAllocators
\* every object may need a block of its own, and refresh leaves one more
BlockIds == 1..(MaxObjects + 1)
Marks == {"New", "Red", "Blue"}

\* Layouts the callers request: a single byte, half of the usable block
\* capacity, a filler of alignment 8 that leaves six bytes of a fresh
\* block, the 80_000-byte array of the tests, and the largest size that is
\* representable with a 4-byte header, once with and once without padding.
HalfCap == BLOCK_CAPACITY \div 2
FillSize == BLOCK_CAPACITY - 8 - 6
TestLargeSize == 80000
Layout(size, align) == [size |-> size, align |-> align]
Layouts == {Layout(1, 1),
            Layout(HalfCap, 8), Layout(FillSize, 8),
            Layout(TestLargeSize, 128),
            Layout(MAX_ALLOC_SIZE - HEADER_SIZE, 1),
            Layout(MAX_ALLOC_SIZE - HEADER_SIZE, 8)}
\* one layout of each size class, for the runs about marks
MarkLayouts == {Layout(1, 1), Layout(HalfCap, 8), Layout(TestLargeSize, 128)}

Max(a, b) == IF a >= b THEN a ELSE b

AlignUp(x, a) == ((x + a - 1) \div a) * a

\* ------------------------------------------------------------------------
\* SizeClass::get_for_size
\* ------------------------------------------------------------------------
GetForSize(total) ==
    IF total >= 1 /\ total <= SMALL_OBJECT_MAX THEN "Small"
    ELSE IF total > SMALL_OBJECT_MAX /\ total <= BLOCK_CAPACITY THEN "Medium"
    ELSE IF total > BLOCK_CAPACITY /\ total <= MAX_ALLOC_SIZE THEN "Large"
    ELSE "Err"

\* ------------------------------------------------------------------------
\* Allocator::alloc, layout arithmetic
\* ------------------------------------------------------------------------
\* let align = max(align_of::<Header>(), layout.align())
AllocAlign(layoutAlign) == Max(HEADER_ALIGN, layoutAlign)

\* variant: no padding between the header and the object
PaddingNone(align) == 0

\* variant: the outer "% align" is missing, a header that needs no padding
\* gets a whole alignment of it
PaddingNoWrap(align) == align - (HEADER_SIZE % align)

\* let padding = (align - (header_size % align)) % align
Padding(align) == (align - (HEADER_SIZE % align)) % align

\* variant: the header and the padding are left out of the size
AllocSizeNoHeader(size, layoutAlign) == size

\* variant: the padding is left out of the size
AllocSizeNoPadding(size, layoutAlign) == HEADER_SIZE + size

\* let alloc_size = header_size + padding + layout.size()
AllocSize(size, layoutAlign) ==
    HEADER_SIZE + Padding(AllocAlign(layoutAlign)) + size

\* space.add(header_size + padding)
ObjectSpace(space, layoutAlign) ==
    space + HEADER_SIZE + Padding(AllocAlign(layoutAlign))

\* Header::new(size_class, alloc_size as u16): the mark is not an argument
HeaderNew(size_class, size16) ==
    [size_class |-> size_class, size |-> size16, mark |-> "New"]

\* ------------------------------------------------------------------------
\* Allocator::get_header
\* ------------------------------------------------------------------------
\* variant: the header is looked for right below the object
GetHeaderNoPadding(object, typeAlign) == object - HEADER_SIZE

GetHeader(object, typeAlign) ==
    LET align == Max(HEADER_ALIGN, typeAlign)
        padding == (align - (HEADER_SIZE % align)) % align
    IN  object - (HEADER_SIZE + padding)

VARIABLES
    checked_out,    \* block store: ids of the standard blocks checked out
    large_blocks,   \* block store: [base, size] of the blocks of Large objects
    platform_top,   \* platform allocator: first free address for Large blocks
    head,           \* head[a]: allocation head of allocator a, [block, offset]
    current_mark,   \* arena: the shared atomic current-mark byte
    mem,            \* heap memory: address -> Header written there
    objs,           \* objects handed out: [ptr, hdr, size, align, by]
    marked,         \* ptr -> the mark last stored with set_mark
    refreshed,      \* whether Arena::refresh has run since Arena::new
    last,           \* the last call of alloc or refresh and its result
    flip_log,       \* the values the current-mark cell has held, in order
    calls,          \* calls[a]: the is_old call allocator a is inside of
    last_obs,       \* the last is_old call that loaded the current mark
    region,         \* a Region built on its own: [live, ptr, size, align]
    probe           \* the last call made on that Region and its result

vars == <<checked_out, large_blocks, platform_top, head, current_mark,
          mem, objs, marked, refreshed, last,
         flip_log, calls, last_obs, region, probe>>

\* the allocators of the arena, its blocks and its objects
heapvars == <<checked_out, large_blocks, platform_top, head, current_mark,
              mem, objs, marked, refreshed, last>>

\* the Region built on its own
regionvars == <<region, probe>>

\* the state of the interleaved is_old calls and of the Region
sharedvars == <<flip_log, calls, last_obs, region, probe>>


\* ------------------------------------------------------------------------
\* Region and block store
\* ------------------------------------------------------------------------
\* Region::at_offset: base + offset
AtOffset(base, offset) == base + offset

\* address of standard block b: the regions are aligned to BLOCK_SIZE and
\* sliced into BLOCK_SIZE blocks
BlockBase(b) == AtOffset(REGION_BASE, (b - 1) * BLOCK_SIZE)

\* first address the platform allocator uses for the blocks of Large objects
PlatformBase == BlockBase(MaxObjects + 3) + HEADER_ALIGN

\* acquire_block: a free block, or 0 when the store cannot supply one
AcquireBlock(out, supply) ==
    IF supply /\ (BlockIds \ out) # {}
    THEN CHOOSE b \in BlockIds \ out : \A c \in BlockIds \ out : b <= c
    ELSE 0

\* variant: the block of a Large object is accounted in whole blocks
LargeBlockSizeWholeBlocks(size) ==
    ((size + BLOCK_SIZE - 1) \div BLOCK_SIZE) * BLOCK_SIZE

\* bytes the arena accounts for the block of a Large object
\* (tests::arena_get_size: BLOCK_SIZE + large_size)
LargeBlockSize(size) == size

RECURSIVE SumSizes(_)
SumSizes(S) ==
    IF S = {} THEN 0
    ELSE LET x == CHOOSE y \in S : TRUE IN x.size + SumSizes(S \ {x})

\* Arena::get_size
GetSize == BLOCK_SIZE * Cardinality(checked_out) + SumSizes(large_blocks)

\* ------------------------------------------------------------------------
\* AllocHead::alloc: the bump cursor of allocator a.  The result carries
\* the address of the space and the state of head and block store after it.
\* ------------------------------------------------------------------------
NoBlock == [block |-> 0, offset |-> 0]

HeadFail == [ok |-> FALSE]

\* variant: the block of a Large object is not reserved, the next Large
\* request is placed from the same address on
HeadLargeShared(size, align, supply) ==
    IF ~supply THEN HeadFail
    ELSE LET base == AlignUp(platform_top, align)
         IN  [ok |-> TRUE, space |-> base, head |-> head,
              checked_out |-> checked_out,
              large_blocks |-> large_blocks \cup
                  {[base |-> base, size |-> LargeBlockSize(size)]},
              platform_top |-> platform_top]

HeadLarge(size, align, supply) ==
    IF ~supply THEN HeadFail
    ELSE LET base == AlignUp(platform_top, align)
         IN  [ok |-> TRUE, space |-> base, head |-> head,
              checked_out |-> checked_out,
              large_blocks |-> large_blocks \cup
                  {[base |-> base, size |-> LargeBlockSize(size)]},
              platform_top |-> base + size]

\* offset in block b at which an allocation of this alignment is placed
BumpStart(b, offset, align) ==
    AlignUp(BlockBase(b) + offset, align) - BlockBase(b)

\* does the allocation fit in the current block of the head h
Fits(h, size, align) ==
    /\ h.block # 0
    /\ BumpStart(h.block, h.offset, align) + size <= BLOCK_CAPACITY

\* variant: a full current block is an error instead of being replaced
HeadBumpNoReplace(a, size, align, supply) ==
    LET h == head[a]
        b == AcquireBlock(checked_out, supply)
    IN  IF Fits(h, size, align)
        THEN LET start == BumpStart(h.block, h.offset, align)
             IN  [ok |-> TRUE, space |-> BlockBase(h.block) + start,
                  head |-> [head EXCEPT ![a].offset = start + size],
                  checked_out |-> checked_out,
                  large_blocks |-> large_blocks,
                  platform_top |-> platform_top]
        ELSE IF h.block # 0 \/ b = 0 THEN HeadFail
             ELSE [ok |-> TRUE, space |-> BlockBase(b),
                   head |-> [head EXCEPT ![a] =
                                [block |-> b, offset |-> size]],
                   checked_out |-> checked_out \cup {b},
                   large_blocks |-> large_blocks,
                   platform_top |-> platform_top]

HeadBump(a, size, align, supply) ==
    LET h == head[a]
    IN  IF Fits(h, size, align)
        THEN LET start == BumpStart(h.block, h.offset, align)
             IN  [ok |-> TRUE, space |-> BlockBase(h.block) + start,
                  head |-> [head EXCEPT ![a].offset = start + size],
                  checked_out |-> checked_out,
                  large_blocks |-> large_blocks,
                  platform_top |-> platform_top]
        ELSE LET b == AcquireBlock(checked_out, supply)
             IN  IF b = 0 THEN HeadFail
                 ELSE [ok |-> TRUE, space |-> BlockBase(b),
                       head |-> [head EXCEPT ![a] =
                                    [block |-> b, offset |-> size]],
                       checked_out |-> checked_out \cup {b},
                       large_blocks |-> large_blocks,
                       platform_top |-> platform_top]

\* does the call have to ask the block store for memory
NeedsBlock(a, size, align) ==
    GetForSize(size) = "Large" \/ ~Fits(head[a], size, align)

HeadAlloc(a, size, align, supply) ==
    IF GetForSize(size) = "Large"
    THEN HeadLarge(size, align, supply)
    ELSE HeadBump(a, size, align, supply)

\* variant: a call that fails gives the blocks of the arena back
UnplacedReleases ==
    [ok |-> FALSE, space |-> 0, head |-> [a \in Allocators |-> NoBlock],
     checked_out |-> {}, large_blocks |-> {}, platform_top |-> platform_top]

\* a call that returned Err before anything was placed
Unplaced ==
    [ok |-> FALSE, space |-> 0, head |-> head, checked_out |-> checked_out,
     large_blocks |-> large_blocks, platform_top |-> platform_top]

\* variant: the head is asked for the space first and the size class is
\* looked at afterwards
AllocAttemptPlaceFirst(a, size_class, alloc_size, al, supply) ==
    LET r == HeadAlloc(a, alloc_size, al, supply)
    IN  IF ~r.ok THEN Unplaced
        ELSE IF size_class = "Err" THEN [r EXCEPT !.ok = FALSE]
        ELSE r

\* SizeClass::get_for_size(alloc_size)? and then self.head.alloc(..)?: the
\* first Err ends the call
AllocAttempt(a, size_class, alloc_size, al, supply) ==
    IF size_class = "Err" THEN Unplaced
    ELSE LET r == HeadAlloc(a, alloc_size, al, supply)
         IN  IF r.ok THEN r ELSE Unplaced

\* ------------------------------------------------------------------------
\* Heap memory
\* ------------------------------------------------------------------------
EmptyMem == [x \in {} |-> HeaderNew("Small", 0)]

\* write(space as *mut Header, header)
WriteHeader(m, addr, header) ==
    [x \in DOMAIN m \cup {addr} |-> IF x = addr THEN header ELSE m[x]]

\* Header::get_mark
HeaderGetMark(m, addr) ==
    IF addr \in DOMAIN m THEN m[addr].mark ELSE "Uninit"

\* Header::set_mark
HeaderSetMark(m, addr, mark) ==
    [x \in DOMAIN m \cup {addr} |->
        IF x = addr
        THEN IF addr \in DOMAIN m
             THEN [m[addr] EXCEPT !.mark = mark]
             ELSE [size_class |-> "Uninit", size |-> 0, mark |-> mark]
        ELSE m[x]]

\* Allocator::get_mark
GetMark(m, ptr, typeAlign) == HeaderGetMark(m, GetHeader(ptr, typeAlign))

\* variant: set_mark looks for the header right below the object
SetMarkMemNoPadding(m, ptr, typeAlign, mark) ==
    HeaderSetMark(m, ptr - HEADER_SIZE, mark)

\* Allocator::set_mark
SetMarkMem(m, ptr, typeAlign, mark) ==
    HeaderSetMark(m, GetHeader(ptr, typeAlign), mark)

\* variant: every allocator keeps a private copy of the mark the arena had
\* when the allocator was created
GetCurrentMarkPrivate(a) == flip_log[1]

\* Allocator::get_current_mark: every allocator holds the arena's cell and
\* loads it atomically
GetCurrentMark(a) == current_mark

\* variant: the allocator compares with the mark the arena had when the
\* allocator was created instead of loading the shared cell
IsOldOfStale(a, m, ptr, typeAlign) == GetMark(m, ptr, typeAlign) = "Red"

\* Allocator::is_old
IsOldOf(a, m, ptr, typeAlign) == GetMark(m, ptr, typeAlign) = GetCurrentMark(a)

\* variant: alloc stamps the header with the arena's current mark
AllocHeaderStamped(size_class, alloc_size) ==
    [HeaderNew(size_class, alloc_size % U16_MOD) EXCEPT !.mark = current_mark]

\* variant: the size is cast to eight bits
AllocHeaderU8(size_class, alloc_size) ==
    HeaderNew(size_class, alloc_size % 256)

\* let header = Header::new(size_class, alloc_size as u16): alloc hands the
\* header neither a mark nor the allocator's current_mark
AllocHeader(size_class, alloc_size) ==
    HeaderNew(size_class, alloc_size % U16_MOD)

\* no is_old call in progress
Idle == [pc |-> "idle"]

\* no Region built
NoRegion == [live |-> FALSE]

\* ------------------------------------------------------------------------
\* Initial state: Arena::new, then Allocator::new for every allocator
\* ------------------------------------------------------------------------
Init ==
    /\ checked_out = {}
    /\ large_blocks = {}
    /\ platform_top = PlatformBase
    /\ head = [a \in Allocators |-> NoBlock]
    /\ current_mark = "Red"
    /\ mem = EmptyMem
    /\ objs = {}
    /\ marked = [x \in {} |-> "New"]
    /\ refreshed = FALSE
    /\ last = [op |-> "new"]
    /\ flip_log = <<current_mark>>
    /\ calls = [a \in Allocators |-> Idle]
    /\ last_obs = [by |-> 0]
    /\ region = NoRegion
    /\ probe = [op |-> "none"]

\* ------------------------------------------------------------------------
\* Allocator::alloc(layout) on allocator a; supply: whether the platform
\* and the block store can supply the memory the call asks them for (a
\* call that asks for none is not refused any)
\* ------------------------------------------------------------------------
Alloc(a, size, align, supply) ==
    LET al == AllocAlign(align)
        alloc_size == AllocSize(size, align)
        size_class == GetForSize(alloc_size)
        header == AllocHeader(size_class, alloc_size)
        r == AllocAttempt(a, size_class, alloc_size, al, supply)
        call == [op |-> "alloc", by |-> a, size |-> size, align |-> align,
                 supply |-> supply, size_before |-> GetSize,
                 head_before |-> head[a], mark_at_call |-> current_mark]
    IN  /\ Cardinality(objs) < MaxObjects
        /\ IF supply THEN TRUE
           ELSE size_class # "Err" /\ NeedsBlock(a, alloc_size, al)
        /\ checked_out' = r.checked_out
        /\ large_blocks' = r.large_blocks
        /\ platform_top' = r.platform_top
        /\ head' = r.head
        /\ IF ~r.ok
           THEN /\ last' = IF supply
                           THEN [op |-> "alloc", ok |-> FALSE, supply |-> TRUE,
                                 size |-> size, align |-> align]
                           ELSE [op |-> "alloc", ok |-> FALSE,
                                 supply |-> FALSE]
                /\ UNCHANGED <<mem, objs>>
           ELSE /\ mem' = WriteHeader(mem, r.space, header)
                /\ objs' = objs \cup
                       {[ptr |-> ObjectSpace(r.space, align), hdr |-> r.space,
                         size |-> size, align |-> align, by |-> a]}
                /\ last' = call @@
                       [ok |-> TRUE, ptr |-> ObjectSpace(r.space, align)]
        /\ UNCHANGED <<current_mark, marked, refreshed>>
        /\ UNCHANGED sharedvars

\* Allocator::set_mark(ptr, mark), ptr typed with the object's alignment
SetMark(o, mark) ==
    /\ mem' = SetMarkMem(mem, o.ptr, o.align, mark)
    /\ marked' = [x \in DOMAIN marked \cup {o.ptr} |->
                     IF x = o.ptr THEN mark ELSE marked[x]]
    /\ UNCHANGED <<checked_out, large_blocks, platform_top, head,
                   current_mark, objs, refreshed, last>>
    /\ UNCHANGED sharedvars

\* Allocator::get_mark(ptr): a read, the state is left alone
ReadMark(o) ==
    /\ GetMark(mem, o.ptr, o.align) \in Marks \cup {"Uninit"}
    /\ UNCHANGED vars

\* allocator.is_old(ptr): a read, the state is left alone
IsOld(a, o) ==
    /\ IsOldOf(a, mem, o.ptr, o.align) \in BOOLEAN
    /\ UNCHANGED vars

\* the collector stores a new epoch colour through get_current_mark_ref()
FlipMark(mark) ==
    /\ mark # current_mark
    /\ current_mark' = mark
    /\ UNCHANGED <<checked_out, large_blocks, platform_top, head,
                   mem, objs, marked, refreshed, last>>
    /\ UNCHANGED sharedvars

\* variant: refresh recycles nothing and only resets the cursor
RefreshKeepsBlocks(holder) ==
    /\ checked_out # {}
    /\ head' = [head EXCEPT ![holder].offset = 0]
    /\ refreshed' = TRUE
    /\ last' = [op |-> "refresh", size_before |-> GetSize,
                blocks_before |-> Cardinality(checked_out)
                                  + Cardinality(large_blocks)]
    /\ UNCHANGED <<checked_out, large_blocks, platform_top, current_mark,
                   mem, objs, marked>>
    /\ UNCHANGED sharedvars

\* variant: refresh keeps one block checked out but leaves no cursor on it
RefreshNoCursor(holder) ==
    /\ checked_out' = {AcquireBlock({}, TRUE)}
    /\ large_blocks' = {}
    /\ platform_top' = PlatformBase
    /\ head' = [a \in Allocators |-> NoBlock]
    /\ mem' = EmptyMem
    /\ objs' = {}
    /\ marked' = [x \in {} |-> "New"]
    /\ refreshed' = TRUE
    /\ last' = [op |-> "refresh", size_before |-> GetSize,
                blocks_before |-> Cardinality(checked_out)
                                  + Cardinality(large_blocks)]
    /\ UNCHANGED current_mark
    /\ UNCHANGED sharedvars

\* Arena::refresh: every block is recycled and one fresh block stays
\* checked out, the cursor of the head that takes it at its start; the
\* objects placed before are gone
Refresh(holder) ==
    /\ checked_out' = {AcquireBlock({}, TRUE)}
    /\ large_blocks' = {}
    /\ platform_top' = PlatformBase
    /\ head' = [a \in Allocators |->
                   IF a = holder
                   THEN [block |-> AcquireBlock({}, TRUE), offset |-> 0]
                   ELSE NoBlock]
    /\ mem' = EmptyMem
    /\ objs' = {}
    /\ marked' = [x \in {} |-> "New"]
    /\ refreshed' = TRUE
    /\ last' = [op |-> "refresh", size_before |-> GetSize,
                blocks_before |-> Cardinality(checked_out)
                                  + Cardinality(large_blocks)]
    /\ UNCHANGED current_mark
    /\ UNCHANGED sharedvars

\* allocation and bulk reset
Next ==
    \/ \E a \in Allocators, l \in Layouts, supply \in BOOLEAN :
          Alloc(a, l.size, l.align, supply)
    \/ \E holder \in Allocators : Refresh(holder)

Spec == Init /\ [][Next]_vars

\* allocation by the first allocator and the mark operations, is_old on
\* every allocator of the arena
NextMarks ==
    \/ \E l \in MarkLayouts : Alloc(1, l.size, l.align, TRUE)
    \/ \E o \in objs, mark \in Marks : SetMark(o, mark)
    \/ \E o \in objs : ReadMark(o)
    \/ \E a \in Allocators, o \in objs : IsOld(a, o)
    \/ \E mark \in Marks : FlipMark(mark)

SpecMarks == Init /\ [][NextMarks]_vars

\* the collector stores a new epoch colour through the shared handle while
\* is_old calls are in progress
FlipShared(mark) ==
    /\ Len(flip_log) <= MaxFlips
    /\ mark # current_mark
    /\ current_mark' = mark
    /\ flip_log' = Append(flip_log, mark)
    /\ UNCHANGED <<checked_out, large_blocks, platform_top, head,
                   mem, objs, marked, refreshed, last, calls, last_obs>>
    /\ UNCHANGED regionvars

\* allocator.is_old(ptr), first half: Self::get_mark(ptr) reads the header
IsOldGetMark(a, o) ==
    /\ calls[a] = Idle
    /\ calls' = [calls EXCEPT ![a] =
                    [pc |-> "got_mark", start |-> Len(flip_log),
                     mark |-> GetMark(mem, o.ptr, o.align)]]
    /\ UNCHANGED <<checked_out, large_blocks, platform_top, head,
                   current_mark, mem, objs, marked, refreshed, last,
                   flip_log, last_obs>>
    /\ UNCHANGED regionvars

\* allocator.is_old(ptr), second half: self.get_current_mark() loads the
\* cell, the two marks are compared and the call returns
IsOldCompare(a) ==
    /\ calls[a] # Idle
    /\ last_obs' = [by |-> a, start |-> calls[a].start,
                    at |-> Len(flip_log), mark |-> calls[a].mark,
                    compared |-> GetCurrentMark(a),
                    result |-> (calls[a].mark = GetCurrentMark(a))]
    /\ calls' = [calls EXCEPT ![a] = Idle]
    /\ UNCHANGED <<checked_out, large_blocks, platform_top, head,
                   current_mark, mem, objs, marked, refreshed, last,
                   flip_log>>
    /\ UNCHANGED regionvars

\* one object, epoch flips, and is_old calls of all allocators interleaved
\* step by step
NextShared ==
    \/ objs = {} /\ Alloc(1, 1, 1, TRUE)
    \/ \E mark \in Marks : FlipShared(mark)
    \/ \E a \in Allocators, o \in objs : IsOldGetMark(a, o)
    \/ \E a \in Allocators : IsOldCompare(a)

SpecShared == Init /\ [][NextShared]_vars

\* layouts of the mixed runs: one byte and the Large array of the size test
SizeLayouts == {Layout(1, 1), Layout(TestLargeSize, 128)}

\* the two colours the collector alternates between
EpochMarks == {"Red", "Blue"}

\* every operation of the interface on one arena: allocation by the first
\* allocator, the mark operations (the tracer stamping objects with the
\* current mark), epoch flips and refresh
NextSize ==
    \/ \E l \in SizeLayouts, supply \in BOOLEAN :
          Alloc(1, l.size, l.align, supply)
    \/ \E o \in objs : SetMark(o, current_mark)
    \/ \E o \in objs : ReadMark(o)
    \/ \E a \in Allocators, o \in objs : IsOld(a, o)
    \/ \E mark \in EpochMarks : FlipMark(mark)
    \/ Refresh(1)

SpecSize == Init /\ [][NextSize]_vars

\* layouts of the runs that place and mark objects: one byte, nearly a
\* whole block, the Large array of the size test
ObjectLayouts ==
    {Layout(1, 1), Layout(FillSize, 8), Layout(TestLargeSize, 128)}

\* successful allocations by every allocator, with no refresh, and the
\* tracer stamping objects with the current mark
NextObjects ==
    \/ \E a \in Allocators, l \in ObjectLayouts :
          Alloc(a, l.size, l.align, TRUE)
    \/ \E o \in objs : SetMark(o, current_mark)

SpecObjects == Init /\ [][NextObjects]_vars

\* ------------------------------------------------------------------------
\* Region
\* ------------------------------------------------------------------------
\* layouts Region::new is called with besides the default one: one block,
\* two default sizes, one line
RegionLayouts ==
    {Layout(BLOCK_SIZE, BLOCK_SIZE), Layout(2 * REGION_SIZE, BLOCK_SIZE),
     Layout(LINE_SIZE, 8)}

\* offsets at_offset is called with
ProbeOffsets ==
    {0, 1, LINE_SIZE - 1, LINE_SIZE, BLOCK_SIZE - 1, BLOCK_SIZE,
     REGION_SIZE - 1, REGION_SIZE, 2 * REGION_SIZE - 1, 2 * REGION_SIZE}

\* std::alloc::alloc(layout): addresses the platform may return, multiples
\* of the alignment
PlatformAddrs(align) ==
    {AlignUp(REGION_BASE, align), AlignUp(REGION_BASE, align) + align}

\* the check of at_offset: debug_assert!(offset < REGION_SIZE)
DebugCheck(r, offset) == offset < REGION_SIZE

\* Region::get_size: self.layout.size()
RegionGetSize(r) == r.size

\* self.ptr.as_ptr().add(offset): defined up to one past the end of the
\* allocation; beyond it the result is whatever the build produces
AddOutcomes(r, offset) ==
    IF offset <= r.size THEN {AtOffset(r.ptr, offset)}
    ELSE {AtOffset(r.ptr, offset), 0}

\* Region::new(layout); supply: whether the platform has the memory
RegionNew(size, align, supply) ==
    /\ ~region.live
    /\ IF supply
       THEN \E ptr \in PlatformAddrs(align) :
               /\ region' = [live |-> TRUE, ptr |-> ptr,
                             size |-> size, align |-> align]
               /\ probe' = [op |-> "new", ok |-> TRUE]
       ELSE /\ probe' = [op |-> "new", ok |-> FALSE]
            /\ UNCHANGED region
    /\ UNCHANGED <<heapvars, flip_log, calls, last_obs>>

\* Region::default
RegionDefault(supply) == RegionNew(REGION_SIZE, BLOCK_SIZE, supply)

\* region.at_offset(offset)
RegionAtOffset(offset) ==
    /\ region.live
    /\ \E ptr \in AddOutcomes(region, offset) :
          probe' = [op |-> "at_offset", offset |-> offset,
                    accepted |-> DebugCheck(region, offset), ptr |-> ptr]
    /\ UNCHANGED <<heapvars, flip_log, calls, last_obs, region>>

\* region.get_size()
RegionSize ==
    /\ region.live
    /\ probe' = [op |-> "get_size", size |-> RegionGetSize(region)]
    /\ UNCHANGED <<heapvars, flip_log, calls, last_obs, region>>

\* drop(region): dealloc(self.ptr, self.layout)
RegionDrop ==
    /\ region.live
    /\ probe' = [op |-> "drop", ptr |-> region.ptr,
                 size |-> region.size, align |-> region.align]
    /\ region' = NoRegion
    /\ UNCHANGED <<heapvars, flip_log, calls, last_obs>>

\* a Region built, probed and dropped, one at a time
NextRegion ==
    \/ \E l \in RegionLayouts, supply \in BOOLEAN :
          RegionNew(l.size, l.align, supply)
    \/ \E supply \in BOOLEAN : RegionDefault(supply)
    \/ \E offset \in ProbeOffsets : RegionAtOffset(offset)
    \/ RegionSize
    \/ RegionDrop

SpecRegion == Init /\ [][NextRegion]_vars

\* ------------------------------------------------------------------------
\* Properties
\* ------------------------------------------------------------------------
\* the header-inclusive padded size of a layout, as the design states it
PaddedAlign(align) == IF align > HEADER_ALIGN THEN align ELSE HEADER_ALIGN

PaddedHeader(align) ==
    HEADER_SIZE
    + ((PaddedAlign(align) - (HEADER_SIZE % PaddedAlign(align)))
       % PaddedAlign(align))

PaddedSize(size, align) == PaddedHeader(align) + size

ClassOf(o) == GetForSize(PaddedSize(o.size, o.align))

LastAllocOk == last.op = "alloc" /\ last.ok

LastClass == GetForSize(PaddedSize(last.size, last.align))

\* C1: the address every successful alloc returns is a multiple of the
\* alignment of the requested layout, for Small, Medium and Large requests
\* and whatever was allocated before.
C1_ObjectAligned ==
    /\ LastAllocOk => last.ptr % last.align = 0
    /\ \A o \in objs : o.ptr % o.align = 0

\* C1 witness: a Small object, a Medium object of alignment 8 placed
\* behind it in the same block, and a Large object of alignment 128 are
\* alive.
C1_Witness ==
    /\ \E o \in objs : ClassOf(o) = "Small"
    /\ \E o \in objs : /\ ClassOf(o) = "Medium" /\ o.align = 8
                       /\ \E b \in BlockIds : o.hdr > BlockBase(b)
                                              /\ o.hdr < BlockBase(b + 1)
    /\ \E o \in objs : ClassOf(o) = "Large" /\ o.align = 128

\* C2: for every object alloc returned, get_header on the object pointer,
\* typed with the object's alignment, is the address alloc wrote the Header
\* to, which is the object address minus header size and padding, and the
\* size class stored there is the class of the header-inclusive size.
C2_HeaderRecovered ==
    \A o \in objs :
        /\ GetHeader(o.ptr, o.align) = o.hdr
        /\ o.hdr = o.ptr - PaddedHeader(o.align)
        /\ o.hdr \in DOMAIN mem
        /\ mem[o.hdr].size_class = ClassOf(o)

\* C2 witness: objects of the three size classes are alive, two of them
\* with padding between header and object.
C2_Witness ==
    /\ \E o \in objs : ClassOf(o) = "Small" /\ o.align = 1
    /\ \E o \in objs : ClassOf(o) = "Medium" /\ o.align = 8
    /\ \E o \in objs : ClassOf(o) = "Large" /\ o.align = 128

\* C3: alloc returns Err for every request whose header-inclusive padded
\* size exceeds MAX_ALLOC_SIZE (no call that returned Ok was over it), and
\* returns Ok for a request at or under that boundary when the block store
\* can supply memory (a call that failed without being refused memory was
\* over it).
C3_TooBigFails ==
    last.op = "alloc" =>
        /\ last.ok => PaddedSize(last.size, last.align) <= MAX_ALLOC_SIZE
        /\ (~last.ok /\ last.supply)
               => PaddedSize(last.size, last.align) > MAX_ALLOC_SIZE

\* C3 witness: a request four bytes over the boundary has just failed
\* while an object of exactly MAX_ALLOC_SIZE bytes is alive.
C3_Witness ==
    /\ last.op = "alloc" /\ ~last.ok /\ last.supply
    /\ PaddedSize(last.size, last.align) = MAX_ALLOC_SIZE + HEADER_SIZE
    /\ \E o \in objs : PaddedSize(o.size, o.align) = MAX_ALLOC_SIZE

\* does a request fit behind the cursor h, from the next address of its
\* alignment on, within the usable capacity of the cursor's block
FitsBehind(h, size, align) ==
    /\ h.block # 0
    /\ AlignUp(BlockBase(h.block) + h.offset, PaddedAlign(align))
       + PaddedSize(size, align) <= BlockBase(h.block) + BLOCK_CAPACITY

\* C4: a fresh arena reports get_size() = 0, the first Small allocation
\* raises it to exactly BLOCK_SIZE, and every later Small allocation that
\* fits in what is left of the current block leaves it unchanged.
C4_SmallAllocSize ==
    /\ last.op = "new" => GetSize = 0
    /\ (LastAllocOk /\ LastClass = "Small" /\ last.size_before = 0)
           => GetSize = BLOCK_SIZE
    /\ (LastAllocOk /\ LastClass = "Small"
        /\ FitsBehind(last.head_before, last.size, last.align))
           => GetSize = last.size_before

\* C4 witness: a Small allocation has just been placed in the last six
\* bytes of a block, behind the filler that was allocated first.
C4_Witness ==
    /\ LastAllocOk /\ LastClass = "Small"
    /\ last.head_before.offset = BLOCK_CAPACITY - 6
    /\ GetSize = BLOCK_SIZE
    /\ Cardinality(objs) = 2

\* C5: a Small or Medium allocation that does not fit in the current block
\* (or finds no current block) acquires exactly one block, get_size() grows
\* by exactly BLOCK_SIZE, and the object is placed at the start of the new
\* block with the cursor behind it; so two allocations of BLOCK_CAPACITY/2
\* bytes give BLOCK_SIZE and then 2 * BLOCK_SIZE.
C5_NewBlockOnOverflow ==
    (LastAllocOk /\ LastClass # "Large"
     /\ ~FitsBehind(last.head_before, last.size, last.align))
        => /\ GetSize = last.size_before + BLOCK_SIZE
           /\ head[last.by].block # last.head_before.block
           /\ head[last.by].block \in checked_out
           /\ last.ptr - PaddedHeader(last.align)
                  = BlockBase(head[last.by].block)
           /\ head[last.by].offset = PaddedSize(last.size, last.align)

\* C5 witness: the second of two allocations of BLOCK_CAPACITY/2 bytes by
\* one allocator on a fresh arena has returned and get_size() is
\* 2 * BLOCK_SIZE.
C5_Witness ==
    /\ LastAllocOk /\ last.size = HalfCap /\ ~refreshed
    /\ last.size_before = BLOCK_SIZE
    /\ last.head_before.offset = PaddedSize(HalfCap, 8)
    /\ \A o \in objs : o.size = HalfCap /\ o.by = last.by
    /\ Cardinality(objs) = 2
    /\ GetSize = 2 * BLOCK_SIZE

\* C6: after allocations that checked out more than one block, refresh
\* leaves exactly one block checked out and get_size() = BLOCK_SIZE.
C6_RefreshToOneBlock ==
    (last.op = "refresh" /\ last.blocks_before > 1)
        => /\ GetSize = BLOCK_SIZE
           /\ Cardinality(checked_out) = 1
           /\ large_blocks = {}

\* C6 witness: refresh has just run on an arena that had three standard
\* blocks checked out.
C6_Witness ==
    /\ last.op = "refresh"
    /\ last.size_before = 3 * BLOCK_SIZE
    /\ last.blocks_before = 3

RECURSIVE SumLargeObjects(_)
SumLargeObjects(S) ==
    IF S = {} THEN 0
    ELSE LET o == CHOOSE x \in S : TRUE
         IN  (IF ClassOf(o) = "Large" THEN PaddedSize(o.size, o.align) ELSE 0)
             + SumLargeObjects(S \ {o})

\* the standard blocks that hold an object or are the current block of a head
BlocksInUse ==
    {b \in BlockIds :
        \/ \E a \in Allocators : head[a].block = b
        \/ \E o \in objs : /\ ClassOf(o) # "Large"
                           /\ o.hdr >= BlockBase(b)
                           /\ o.hdr < BlockBase(b) + BLOCK_SIZE}

\* the whole blocks that would hold the Large objects alive
RECURSIVE WholeBlocksOfLarge(_)
WholeBlocksOfLarge(S) ==
    IF S = {} THEN 0
    ELSE LET o == CHOOSE x \in S : TRUE
         IN  (IF ClassOf(o) = "Large"
              THEN (PaddedSize(o.size, o.align) + BLOCK_SIZE - 1)
                   \div BLOCK_SIZE
              ELSE 0)
             + WholeBlocksOfLarge(S \ {o})

C8_LargeByteExact ==
    /\ (LastAllocOk /\ LastClass = "Large")
           => GetSize = last.size_before
                        + PaddedSize(last.size, last.align)
    /\ \A s, m, l \in objs :
           (/\ ~refreshed /\ objs = {s, m, l}
            /\ s.by = m.by /\ m.by = l.by
            /\ ClassOf(s) = "Small" /\ ClassOf(m) = "Medium"
            /\ ClassOf(l) = "Large"
            /\ PaddedSize(s.size, s.align) + PaddedAlign(s.align)
               + PaddedSize(m.size, m.align) + PaddedAlign(m.align)
                   <= BLOCK_CAPACITY)
               => GetSize = BLOCK_SIZE + PaddedSize(l.size, l.align)

\* C8 witness: a Small, a Medium and then the 80_000-byte Large object have
\* been allocated by one allocator on a fresh arena.
C8_Witness ==
    /\ ~refreshed /\ Cardinality(objs) = 3
    /\ LastAllocOk /\ last.size = TestLargeSize
    /\ \E o \in objs : ClassOf(o) = "Small" /\ o.by = last.by
    /\ \E o \in objs : ClassOf(o) = "Medium" /\ o.by = last.by
    /\ GetSize = BLOCK_SIZE + PaddedSize(TestLargeSize, 128)

\* C9: for every allocated object and every mark m, get_mark after
\* set_mark(ptr, m) returns m, whatever was allocated or marked in between.
C9_MarkRoundTrip ==
    \A o \in objs :
        o.ptr \in DOMAIN marked => GetMark(mem, o.ptr, o.align) = marked[o.ptr]

\* C9 witness: a Small, a Medium and a Large object are alive, each was
\* marked, and the three carry three different marks.
C9_Witness ==
    /\ \A o \in objs : o.ptr \in DOMAIN marked
    /\ \E s, m, l \in objs :
          /\ ClassOf(s) = "Small" /\ ClassOf(m) = "Medium"
          /\ ClassOf(l) = "Large"
          /\ marked[s.ptr] = "Blue" /\ marked[m.ptr] = "Red"
          /\ marked[l.ptr] = "New"

\* the mark in the header alloc wrote for object o
StoredMark(o) == mem[o.hdr].mark

\* C10: is_old(ptr) is true exactly when the mark stored in the object's
\* header equals the arena's shared current mark at the time of the call,
\* on every allocator and after any alloc, set_mark and mark flip.
C10_IsOldIffCurrent ==
    \A a \in Allocators, o \in objs :
        IsOldOf(a, mem, o.ptr, o.align) <=> (StoredMark(o) = current_mark)

\* C10 witness: the current mark was flipped to Blue; one object was set
\* to Blue and is old, one still carries the mark of its allocation and is
\* not old, one was set to Red and is not old.
C10_Witness ==
    /\ current_mark = "Blue"
    /\ \E o \in objs : /\ o.ptr \in DOMAIN marked /\ marked[o.ptr] = "Blue"
                       /\ IsOldOf(o.by, mem, o.ptr, o.align)
    /\ \E o \in objs : /\ o.ptr \notin DOMAIN marked
                       /\ ~IsOldOf(o.by, mem, o.ptr, o.align)
    /\ \E o \in objs : /\ o.ptr \in DOMAIN marked /\ marked[o.ptr] = "Red"
                       /\ ~IsOldOf(o.by, mem, o.ptr, o.align)

\* C11 as stated: the header of every object is stamped at allocation with
\* the arena's current mark at that instant, so an object that set_mark
\* never touched carries the mark that was current when alloc returned it.
C11_StampedWithCurrent ==
    (LastAllocOk /\ last.ptr \notin DOMAIN marked)
        => GetMark(mem, last.ptr, last.align) = last.mark_at_call

\* C11 amended: the header of every object gets at allocation the one
\* initial mark of Header::new, whatever the arena's current mark is or was
\* flipped to; it is not the current mark unless the two happen to agree,
\* and it stays until set_mark stores another.
C11_InitialMarkFixed ==
    /\ \A o \in objs :
           o.ptr \notin DOMAIN marked
               => GetMark(mem, o.ptr, o.align) = HeaderNew(ClassOf(o), 0).mark
    /\ \A o, p \in objs :
           (o.ptr \notin DOMAIN marked /\ p.ptr \notin DOMAIN marked)
               => GetMark(mem, o.ptr, o.align) = GetMark(mem, p.ptr, p.align)

\* C11 witness: an object was allocated after the current mark had been
\* flipped to Blue, next to one allocated before, and no set_mark touched
\* either; neither carries Blue.
C11_Witness ==
    /\ LastAllocOk /\ last.mark_at_call = "Blue" /\ current_mark = "Blue"
    /\ Cardinality(objs) = 2
    /\ \A o \in objs : /\ o.ptr \notin DOMAIN marked
                       /\ GetMark(mem, o.ptr, o.align) # "Blue"

\* C12: a full current block is never an error by itself. A call made
\* while the block store can supply memory fails only when the size-class
\* classification of its padded size fails; in particular every
\* minimal-size allocation then succeeds, also the one that finds the
\* current block full.
C12_ErrOnlyClassOrStore ==
    (last.op = "alloc" /\ ~last.ok /\ last.supply)
        => GetForSize(AllocSize(last.size, last.align)) = "Err"

\* C12 witness: a one-byte allocation found the current block of its
\* allocator too full, was given the next block and succeeded.
C12_Witness ==
    /\ LastAllocOk /\ last.size = 1 /\ last.supply
    /\ last.head_before.block # 0
    /\ ~Fits(last.head_before, PaddedSize(last.size, last.align),
             PaddedAlign(last.align))
    /\ head[last.by].block # last.head_before.block

\* C13: the allocators of one arena share one current-mark cell. Every
\* is_old call, on whichever allocator and however flips interleave with
\* it, compares the object's mark with the value of the latest flip
\* completed when it loads the cell, which is no earlier than the latest
\* flip completed when the call started; so no call compares against an
\* older value once a newer one has been stored.
C13_SharedCurrentMark ==
    last_obs.by # 0
        => /\ last_obs.start <= last_obs.at
           /\ last_obs.compared = flip_log[last_obs.at]
           /\ last_obs.result = (last_obs.mark = flip_log[last_obs.at])

\* C13 witness: an is_old call of the second allocator read the header,
\* a flip completed, then the call loaded the cell and found the object
\* old under the flipped value, while the first allocator is inside
\* another call that started before a later flip.
C13_Witness ==
    /\ last_obs.by = 2
    /\ last_obs.start < last_obs.at
    /\ last_obs.result
    /\ calls[1] # Idle /\ calls[1].start < Len(flip_log)
    /\ last_obs.at < Len(flip_log)

\* C14: the header of a Small or Medium object stores its header-inclusive
\* size exactly, that size being below 2^16; the stored 16-bit size differs
\* from the real one, by dropping the bits from 2^16 up, only for Large
\* objects, and a Large request of 2^16 bytes or more still succeeds when
\* the memory for it can be supplied.
C14_EncodedSizeExact ==
    /\ \A o \in objs :
          LET total == PaddedSize(o.size, o.align)
          IN  /\ mem[o.hdr].size_class = ClassOf(o)
              /\ mem[o.hdr].size = total % U16_MOD
              /\ ClassOf(o) \in {"Small", "Medium"}
                     => total < U16_MOD /\ mem[o.hdr].size = total
              /\ mem[o.hdr].size # total
                     => ClassOf(o) = "Large" /\ total >= U16_MOD
    /\ (last.op = "alloc" /\ last.supply /\ LastClass = "Large")
           => last.ok

\* C14 witness: a Small, a Medium and a Large object are allocated; the
\* Large one has its stored size truncated.
C14_Witness ==
    /\ LastAllocOk /\ LastClass = "Large"
    /\ \E o \in objs : /\ o.ptr = last.ptr
                       /\ PaddedSize(o.size, o.align) >= U16_MOD
                       /\ mem[o.hdr].size = PaddedSize(o.size, o.align) - U16_MOD
    /\ \E o \in objs : ClassOf(o) = "Small" /\ mem[o.hdr].size = 5
    /\ \E o \in objs : ClassOf(o) = "Medium" /\ mem[o.hdr].size > SMALL_OBJECT_MAX

\* the Large objects and the block of each
LargeObjects == {o \in objs : ClassOf(o) = "Large"}

BlockOfLarge(o) == CHOOSE lb \in large_blocks : lb.base = o.hdr

\* C15: a Large object starts a block of its own: its header is at the
\* base of a block of the store kept for it alone, no other object (Small,
\* Medium or Large, of any allocator, allocated before or after) has its
\* address or any of its bytes inside that block, no standard block
\* overlaps it, and the Large allocation leaves the bump cursor of its
\* allocator where it was.
C15_LargeBlockExclusive ==
    /\ \A o \in LargeObjects :
          /\ \E lb \in large_blocks : lb.base = o.hdr
          /\ LET lb == BlockOfLarge(o)
             IN  /\ o.ptr + o.size <= lb.base + lb.size
                 /\ \A p \in objs \ {o} :
                       \/ p.ptr + p.size <= lb.base
                       \/ p.hdr >= lb.base + lb.size
                 /\ \A b \in checked_out :
                       \/ BlockBase(b) + BLOCK_SIZE <= lb.base
                       \/ BlockBase(b) >= lb.base + lb.size
    /\ (LastAllocOk /\ LastClass = "Large")
           => head[last.by] = last.head_before

\* C15 witness: one allocator placed a Large object, the other a Small one
\* and then a second Large one, which left its cursor behind the Small
\* object.
C15_Witness ==
    /\ LastAllocOk /\ LastClass = "Large"
    /\ Cardinality(LargeObjects) = 2
    /\ \E o \in objs : ClassOf(o) = "Small" /\ o.by = last.by
    /\ last.head_before.block # 0
    /\ head[last.by] = last.head_before
    /\ \E o \in LargeObjects : o.by # last.by

\* C16: a call of alloc that fails because the padded size is above the
\* maximum changes nothing: no block is acquired, get_size() and every
\* bump cursor stay as they were, no header is written and the headers and
\* marks of the existing objects are untouched. Every variable a later
\* alloc reads is as before the failed call, so that allocation is decided
\* as if the failed call had not been made.
C16_TooBigLeavesNoTrace ==
    [][(/\ last' # last
        /\ last'.op = "alloc" /\ ~last'.ok /\ last'.supply
        /\ GetForSize(PaddedSize(last'.size, last'.align)) = "Err")
          => /\ UNCHANGED <<checked_out, large_blocks, platform_top, head,
                            mem, objs, marked, current_mark>>
             /\ GetSize' = GetSize]_vars

\* C16 witness: a request above the maximum has just failed on an
\* allocator that holds a partly filled block, next to a Large object.
C16_Witness ==
    /\ last.op = "alloc" /\ ~last.ok /\ last.supply
    /\ GetForSize(PaddedSize(last.size, last.align)) = "Err"
    /\ \E a \in Allocators : head[a].block # 0 /\ head[a].offset > 0
    /\ \A a \in Allocators : head[a].block # 0
    /\ LargeObjects # {}

\* C17: after Arena::refresh the cursor that refresh resets is at the
\* start of the one block that stays checked out, so a Small request on
\* that allocator needs nothing from the block store; when the first
\* allocation after the refresh is a Small one through that cursor, it
\* succeeds, lies in that block and leaves get_size() at exactly
\* BLOCK_SIZE, with no second block acquired.
C17_AllocAfterRefresh ==
    /\ last.op = "refresh"
           => \E a \in Allocators :
                 /\ checked_out = {head[a].block}
                 /\ head[a].offset = 0
                 /\ large_blocks = {}
                 /\ GetSize = BLOCK_SIZE
                 /\ ~NeedsBlock(a, AllocSize(1, 1), AllocAlign(1))
    /\ (/\ refreshed /\ LastAllocOk /\ LastClass = "Small"
        /\ Cardinality(objs) = 1
        /\ last.head_before.block # 0 /\ last.head_before.offset = 0)
           => /\ GetSize = BLOCK_SIZE
              /\ checked_out = {last.head_before.block}
              /\ head[last.by].block = last.head_before.block
              /\ \E o \in objs :
                    /\ o.ptr = last.ptr
                    /\ o.hdr = BlockBase(last.head_before.block)
                    /\ o.ptr + o.size <= BlockBase(last.head_before.block)
                                         + BLOCK_CAPACITY

\* C17 witness: several blocks and a Large object were checked out, the
\* arena was refreshed, and the first allocation afterwards, a Small one,
\* went through the cursor refresh had reset.
C17_Witness ==
    /\ refreshed /\ LastAllocOk /\ LastClass = "Small"
    /\ last.head_before.block # 0 /\ last.head_before.offset = 0
    /\ last.size_before = BLOCK_SIZE
    /\ Cardinality(objs) = 1
    /\ GetSize = BLOCK_SIZE

\* C18: get_size() never decreases across an operation other than
\* refresh: across a successful or a failed alloc, set_mark, get_mark,
\* is_old and a flip of the current mark it stays or grows.
C18_SizeMonotone ==
    [][(last'.op = "refresh" /\ last' # last) \/ GetSize' >= GetSize]_vars

\* C18 witness: after a Small and a Large object and a set_mark, with the
\* current mark flipped, an alloc has failed and get_size() still counts
\* the block and the Large block.
C18_Witness ==
    /\ ~refreshed
    /\ last.op = "alloc" /\ ~last.ok
    /\ Cardinality(large_blocks) = 1
    /\ Cardinality(checked_out) = 1
    /\ DOMAIN marked # {}
    /\ current_mark # "Red"
    /\ GetSize = BLOCK_SIZE + PaddedSize(TestLargeSize, 128)

\* C19 as stated: for a Region built by Region::new(layout), at_offset(o)
\* returns base + o and its debug check accepts exactly the offsets
\* o < get_size(), the size of the layout the Region was built with, also
\* when that size is not the default region size.
C19_CheckAgainstOwnSize ==
    (region.live /\ probe.op = "at_offset")
        => /\ probe.accepted <=> probe.offset < RegionGetSize(region)
           /\ probe.accepted => probe.ptr = region.ptr + probe.offset

\* the bytes of an object, from its header to its last byte
RangeStart(o) == o.hdr

RangeEnd(o) == o.ptr + o.size

\* C20: with no refresh in between, the byte ranges from header address to
\* object end of distinct objects are pairwise disjoint, the range of every
\* object that is not Large lies within the usable capacity of one block,
\* and the header of every object is the one its own allocation wrote with
\* the mark of its own last set_mark: set_mark on one object changes
\* neither the header nor the mark of another.
C20_ObjectsDisjoint ==
    /\ \A o, p \in objs :
          o # p => RangeEnd(o) <= RangeStart(p) \/ RangeEnd(p) <= RangeStart(o)
    /\ \A o \in objs :
          /\ RangeStart(o) < o.ptr
          /\ ClassOf(o) # "Large"
                 => \E b \in checked_out :
                       /\ BlockBase(b) <= RangeStart(o)
                       /\ RangeEnd(o) <= BlockBase(b) + BLOCK_CAPACITY
          /\ mem[o.hdr].size_class = ClassOf(o)
          /\ mem[o.hdr].size = PaddedSize(o.size, o.align) % U16_MOD
          /\ mem[o.hdr].mark = IF o.ptr \in DOMAIN marked
                               THEN marked[o.ptr]
                               ELSE HeaderNew(ClassOf(o), 0).mark
    /\ DOMAIN mem = {o.hdr : o \in objs}

\* C20 witness: two objects share a block back to back, a third is Large,
\* and set_mark has stamped exactly one of the two neighbours.
C20_Witness ==
    /\ Cardinality(objs) = 3
    /\ \E o, p \in objs :
          /\ o # p /\ RangeEnd(o) = RangeStart(p)
          /\ o.ptr \in DOMAIN marked /\ marked[o.ptr] = current_mark
          /\ p.ptr \notin DOMAIN marked
    /\ LargeObjects # {}

====
